---- MODULE Spec2Model ----
(***************************************************************************)
(* Field classification pipeline of the Enterprise Accelerator notebooks:  *)
(* get_ndvi_tseries (time-series builder), get_field_class (classifier     *)
(* cache and inference, HTTP / Lambda / Batch), classify_ndvi (distributed *)
(* task) and the as_completed collection loop.                             *)
(*                                                                         *)
(* Numbers are exact rationals <<n, d>> with d > 0; <<0, 0>> stands for an *)
(* undefined value (NaN).  Dates are whole days counted from the default   *)
(* start date 2019-04-01; datetime.timestamp() is day * 86400 (the local   *)
(* UTC offset is the same for every date and cancels in interpolation).    *)
(***************************************************************************)
EXTENDS Integers, Sequences, FiniteSets, TLC

\* ------------------------------------------------------------------ bounds
\* Pixels per image (the flattened x * y axes of the stack).
NumPixels == 2
\* Acquisition days a catalog search returns at most.
MaxDays == 2

\* ------------------------------------------------------- program constants
\* timedelta(days=6): the step of the resampling grid.
StepDays == 6
\* cloud_mask == 1 flags a cloud pixel.
CloudFlag == 1
\* datetime.timestamp(): seconds per day.
SecondsPerDay == 86400
\* start_date="2019-04-01" as day 0, end_date="2019-10-01" as day 183.
DefaultStart == 0
DefaultEnd == 183

\* ------------------------------------------------------ rational arithmetic
RECURSIVE Gcd(_, _)
Gcd(a, b) == IF b = 0 THEN a ELSE Gcd(b, a % b)

Abs(a) == IF a < 0 THEN -a ELSE a

NaN == <<0, 0>>
IsNaN(q) == q[2] = 0

\* Normal form: positive denominator, lowest terms.
Norm(n, d) ==
    IF d = 0 THEN NaN
    ELSE LET g == Gcd(Abs(n), Abs(d))
             s == IF d < 0 THEN -1 ELSE 1
         IN  << (s * n) \div g, (s * d) \div g >>

Rat(n) == <<n, 1>>
RAdd(p, q) == IF IsNaN(p) \/ IsNaN(q) THEN NaN
              ELSE Norm(p[1] * q[2] + q[1] * p[2], p[2] * q[2])
RSub(p, q) == IF IsNaN(p) \/ IsNaN(q) THEN NaN
              ELSE Norm(p[1] * q[2] - q[1] * p[2], p[2] * q[2])
RMul(p, q) == IF IsNaN(p) \/ IsNaN(q) THEN NaN
              ELSE LET a == Norm(p[1], q[2])
                       b == Norm(q[1], p[2])
                   IN  Norm(a[1] * b[1], a[2] * b[2])
\* Floating-point division: 0/0 is NaN (x/0 with x # 0 does not occur here).
RDiv(p, q) == IF IsNaN(p) \/ IsNaN(q) \/ q[1] = 0 THEN NaN
              ELSE RMul(p, Norm(q[2], q[1]))
RLe(p, q) == p[1] * q[2] <= q[1] * p[2]
RLt(p, q) == p[1] * q[2] < q[1] * p[2]

\* ------------------------------------------------------------ sequence help
\* Variant: the [1:] slice left out.
Drop1Kept(s) == s

\* Python's s[1:]: an empty sequence stays empty.
Drop1(s) == IF Len(s) = 0 THEN <<>> ELSE Tail(s)

\* Variant: the index ignored, every entry kept.
BoolIndexAll(s, keep) == s

\* The entries of s at the positions where keep is TRUE (boolean indexing).
RECURSIVE BoolIndex(_, _)
BoolIndex(s, keep) ==
    IF Len(s) = 0 THEN <<>>
    ELSE (IF Head(keep) THEN <<Head(s)>> ELSE <<>>) \o BoolIndex(Tail(s), Tail(keep))

\* Insert the rational q into the ascending sequence s.
RECURSIVE RInsert(_, _)
RInsert(q, s) ==
    IF Len(s) = 0 THEN <<q>>
    ELSE IF RLe(q, Head(s)) THEN <<q>> \o s
    ELSE <<Head(s)>> \o RInsert(q, Tail(s))

RECURSIVE RSort(_)
RSort(s) == IF Len(s) = 0 THEN <<>> ELSE RInsert(Head(s), RSort(Tail(s)))

\* ------------------------------------------------- get_ndvi_tseries, by step
\* Band positions of ["red", "nir", "cloud_mask"]: stack[:,0], stack[:,1], stack[:,-1].
RedBand == 1
NirBand == 2
CloudBand == 3
Bands == {RedBand, NirBand, CloudBand}
Pixels == 1..NumPixels

\* scenes.stack(..., flatten=day): one masked image per acquisition day.
Stack(scenes) ==
    [d \in 1..Len(scenes) |-> [data |-> scenes[d].data, mask |-> scenes[d].mask]]

\* Variant: the flag test inverted (!= 1).
CmaskInverted(stack) ==
    [d \in 1..Len(stack) |->
        [b \in Bands |-> [p \in Pixels |-> stack[d].data[CloudBand][p] # CloudFlag]]]

\* cmask = np.repeat((stack[:,-1].data == 1)[:, np.newaxis], stack.shape[1], axis=1)
Cmask(stack) ==
    [d \in 1..Len(stack) |->
        [b \in Bands |-> [p \in Pixels |-> stack[d].data[CloudBand][p] = CloudFlag]]]

\* Variant: stack.mask = cmask, the existing mask dropped.
MaskCloudsOverwrite(stack) ==
    LET cmask == Cmask(stack)
    IN  [d \in 1..Len(stack) |-> [data |-> stack[d].data, mask |-> cmask[d]]]

\* stack.mask = (stack.mask) | cmask
MaskClouds(stack) ==
    LET cmask == Cmask(stack)
    IN  [d \in 1..Len(stack) |->
            [data |-> stack[d].data,
             mask |-> [b \in Bands |->
                        [p \in Pixels |-> stack[d].mask[b][p] \/ cmask[d][b][p]]]]]

\* ndvi = (stack[:,1] - stack[:,0]) / (stack[:,1] + stack[:,0]) on masked arrays:
\* an entry is masked when either operand is, or when the denominator is zero.
\* Variant: the difference normalized by nir alone.
NdviPixelByNir(red, nir) == RDiv(Rat(nir - red), Rat(nir))

NdviPixel(red, nir) == RDiv(Rat(nir - red), Rat(nir + red))

Ndvi(stack) ==
    [d \in 1..Len(stack) |->
        [data |-> [p \in Pixels |->
                    NdviPixel(stack[d].data[RedBand][p], stack[d].data[NirBand][p])],
         mask |-> [p \in Pixels |->
                    \/ stack[d].mask[RedBand][p]
                    \/ stack[d].mask[NirBand][p]
                    \/ stack[d].data[NirBand][p] + stack[d].data[RedBand][p] = 0]]]

\* The unmasked values of one day's index image, ascending.
ValidSorted(img) ==
    RSort(BoolIndex([p \in Pixels |-> img.data[p]], [p \in Pixels |-> ~img.mask[p]]))

\* Variant: np.median of the filled data, a fully masked day reads 0.
MedianOfFilled(img) ==
    LET v == ValidSorted(img)
        n == Len(v)
    IN  IF n = 0 THEN [data |-> Rat(0), mask |-> FALSE]
        ELSE IF n % 2 = 1 THEN [data |-> v[(n + 1) \div 2], mask |-> FALSE]
        ELSE [data |-> RDiv(RAdd(v[n \div 2], v[n \div 2 + 1]), Rat(2)), mask |-> FALSE]

\* Variant: the lower of the two middle values, no mean.
MedianLow(img) ==
    LET v == ValidSorted(img)
        n == Len(v)
    IN  IF n = 0 THEN [data |-> Rat(0), mask |-> TRUE]
        ELSE [data |-> v[(n + 1) \div 2], mask |-> FALSE]

\* np.ma.median over the pixel axes: the middle value, or the mean of the two
\* middle values; masked when the day has no unmasked pixel.
MaMedianDay(img) ==
    LET v == ValidSorted(img)
        n == Len(v)
    IN  IF n = 0 THEN [data |-> Rat(0), mask |-> TRUE]
        ELSE IF n % 2 = 1 THEN [data |-> v[(n + 1) \div 2], mask |-> FALSE]
        ELSE [data |-> RDiv(RAdd(v[n \div 2], v[n \div 2 + 1]), Rat(2)), mask |-> FALSE]

\* ndvi_ts = np.ma.median(ndvi, axis=[1,2])
MaMedian(ndvi) == [d \in 1..Len(ndvi) |-> MaMedianDay(ndvi[d])]

\* dates: the keys of scenes.groupby(day); dates_ts: their timestamps.
Dates(scenes) == [d \in 1..Len(scenes) |-> scenes[d].date]
Timestamp(day) == day * SecondsPerDay
DatesTs(dates) == [d \in 1..Len(dates) |-> Timestamp(dates[d])]

\* Variant: the end of the range included when a step lands on it.
ArangeClosed(start, end, step) ==
    [i \in 1..((end - start) \div step + 1) |-> start + (i - 1) * step]

\* np.arange(start, end, timedelta(days=6)): start, start + 6, ... below end.
RECURSIVE Arange(_, _, _)
Arange(start, end, step) ==
    IF start >= end THEN <<>> ELSE <<start>> \o Arange(start + step, end, step)

\* np.searchsorted(x, v): the number of entries of the ascending x below v.
SearchSorted(x, v) == Cardinality({i \in 1..Len(x) : x[i] < v})

\* np.clip(a, lo, hi): minimum(maximum(a, lo), hi).
Clip(a, lo, hi) ==
    LET m == IF a < lo THEN lo ELSE a
    IN  IF m > hi THEN hi ELSE m

\* Python indexing x[k] for k >= -1 (k = -1 is the last entry).
PyAt(x, k) == IF k < 0 THEN x[Len(x) + 1 + k] ELSE x[k + 1]

\* Variant: kind="previous", the value of the sample to the left.
CallPrevious(x, y, xnew) ==
    PyAt(y, Clip(SearchSorted(x, xnew), 1, Len(x) - 1) - 1)

\* interp1d._call_linear at one new abscissa.
CallLinear(x, y, xnew) ==
    LET hi == Clip(SearchSorted(x, xnew), 1, Len(x) - 1)
        lo == hi - 1
        xlo == PyAt(x, lo)
        xhi == PyAt(x, hi)
        ylo == PyAt(y, lo)
        yhi == PyAt(y, hi)
        slope == RDiv(RSub(yhi, ylo), Rat(xhi - xlo))
    IN  RAdd(RMul(slope, Rat(xnew - xlo)), ylo)

\* Outcome of a call: a returned series, or the error it raised.
Returned(values, dates) == [kind |-> "ok", values |-> values, dates |-> dates]
\* Variant: the error swallowed, empty arrays returned.
RaisedAsEmpty(kind) == Returned(<<>>, <<>>)

Raised(kind) == [kind |-> kind, values |-> <<>>, dates |-> <<>>]

\* get_ndvi_tseries on the scenes the catalog search returned.  minval is the
\* fewest samples the installed interp1d accepts for kind="linear".
GetNdviTseries(scenes, start_date, end_date, minval) ==
    IF Len(scenes) = 0
    THEN Raised("ValueError")          \* scenes.stack on an empty SceneCollection
    ELSE
    LET stack == MaskClouds(Stack(scenes))
        ndvi_ts == MaMedian(Ndvi(stack))
        dates_ts == DatesTs(Dates(scenes))
        new_dates == Arange(start_date, end_date, StepDays)
        new_dates_ts == [i \in 1..Len(new_dates) |-> Timestamp(new_dates[i])]
        keep == [d \in 1..Len(ndvi_ts) |-> ~ndvi_ts[d].mask]
        tseries_masked == BoolIndex([d \in 1..Len(ndvi_ts) |-> ndvi_ts[d].data], keep)
        dates_masked == BoolIndex(dates_ts, keep)
    IN  IF Len(dates_masked) < minval
        THEN Raised("ValueError")      \* interp1d: too few entries
        ELSE Returned(
                Drop1([i \in 1..Len(new_dates_ts) |->
                         CallLinear(dates_masked, tseries_masked, new_dates_ts[i])]),
                Drop1(new_dates))

\* --------------------------------------------------------------- remote data
\* Pixel kinds of the imagery: [red, nir, cloud_mask, already masked].
ClearHigh == [red |-> 1, nir |-> 3, cloud |-> 0, masked |-> FALSE]
ClearLow  == [red |-> 3, nir |-> 1, cloud |-> 0, masked |-> FALSE]
Cloudy    == [red |-> 1, nir |-> 3, cloud |-> CloudFlag, masked |-> FALSE]
PreMasked == [red |-> 2, nir |-> 2, cloud |-> 0, masked |-> TRUE]
PixelKinds == {ClearHigh, ClearLow, Cloudy, PreMasked}
\* A valid pixel with no signal in either band: nir + red is zero.
Dark == [red |-> 0, nir |-> 0, cloud |-> 0, masked |-> FALSE]

\* The image of one acquisition day: pixel 1 of kind a, every other pixel of kind b.
Image(date, a, b) ==
    LET k(p) == IF p = 1 THEN a ELSE b
    IN  [date |-> date,
         data |-> [bd \in Bands |->
                    [p \in Pixels |-> IF bd = RedBand THEN k(p).red
                                      ELSE IF bd = NirBand THEN k(p).nir
                                      ELSE k(p).cloud]],
         mask |-> [bd \in Bands |-> [p \in Pixels |-> k(p).masked]]]

\* Sentinel-2 revisit: consecutive acquisition days are 5 days apart.
RevisitDays == 5
FirstDays == {0, 4}
EndDates == {12, 15, DefaultEnd}

\* The scene collections a search may return: 0..max_days days, ascending dates.
SceneCollections(max_days) ==
    UNION { { [d \in 1..n |-> Image(first + (d - 1) * RevisitDays, ka[d], kb[d])] :
                ka \in [1..n -> PixelKinds], kb \in [1..n -> PixelKinds] } :
            n \in 0..max_days, first \in FirstDays }

\* Three cloud-free days, 90 days apart, with index 1/5, 1/2 and 4/5.
Clear02 == [red |-> 2, nir |-> 3, cloud |-> 0, masked |-> FALSE]
Clear08 == [red |-> 1, nir |-> 9, cloud |-> 0, masked |-> FALSE]
ThreeClearDays ==
    << Image(0, Clear02, Clear02), Image(90, ClearHigh, ClearHigh), Image(180, Clear08, Clear08) >>

\* A cloudy day followed by two clear ones, all inside the date range.
CloudyThenClear ==
    << Image(4, Cloudy, Cloudy), Image(9, ClearHigh, ClearHigh), Image(14, ClearLow, ClearLow) >>

\* interp1d(kind="linear") accepts one sample in current SciPy, two in older ones.
MinvalChoices == {1, 2}

VARIABLES
    tsIn,       \* arguments of a get_ndvi_tseries call: scenes found, dates, minval
    tsOut,      \* its outcome
    pxIn,       \* the red and nir values of one pixel
    pxOut,      \* the index computed for it
    mkIn,       \* a stack as downloaded, and a second cloud_mask band for it
    mkOut,      \* the masked stacks and per-day medians under either band
    submitted,  \* the arguments given to submit_job
    command,    \* containerOverrides["command"] of the submitted job
    called,     \* the arguments run_batch_field_model gave to get_field_class
    logged      \* the result it logged and returned

pxVars == <<pxIn, pxOut>>

mkVars == <<mkIn, mkOut>>

batchVars == <<submitted, command, called, logged>>

tsVars == <<tsIn, tsOut, pxVars, mkVars>>

Pending == [kind |-> "pending", values |-> <<>>, dates |-> <<>>]

\* ------------------------------------------------ the catalog, per geometry
\* What dl.scenes.search returns for each field of the reference data.
Areas == {"field_ok", "field_low", "field_none"}

Catalog(area) ==
    CASE area = "field_ok"     -> << Image(4, ClearHigh, ClearHigh), Image(9, ClearHigh, Cloudy) >>
      [] area = "field_low"    -> << Image(4, ClearLow, ClearLow), Image(9, ClearLow, PreMasked) >>
      [] area = "field_none"   -> << >>

\* get_ndvi_tseries(geom) with the default dates, for each field and each
\* interp1d build.
TseriesOf(mv) ==
    [a \in Areas |-> GetNdviTseries(Catalog(a), DefaultStart, DefaultEnd, mv)]

\* ------------------------------------------------------ classifier artifacts
\* The serialized classifier stored under a model name at a storage location
\* ("dl" is dl.storage; the others are S3 buckets).
Artifact(store, model_name) == [store |-> store, name |-> model_name]
NoArtifact == [store |-> "none", name |-> "none"]

\* clf.predict(ndvi_ts.reshape(1,-1))[0]: 1 (corn) or 0 (not corn).  The trained
\* model is opaque: it is a fixed function of the feature vector, one per
\* artifact, here a threshold on the first feature.  scikit-learn rejects a
\* vector that holds NaN.
PredictClass(clf, values) ==
    IF \E i \in 1..Len(values) : IsNaN(values[i]) THEN -1
    ELSE LET high == Len(values) > 0 /\ RLt(Rat(0), values[1])
         IN  IF clf.store = "bucket_b"
             THEN (IF high THEN 0 ELSE 1)
             ELSE (IF high THEN 1 ELSE 0)

\* ------------------------------------------------------- request handling
\* Requests one process receives, numbered in order of arrival.
MaxRequests == 2
Requests == 1..MaxRequests

\* Deployment shapes: the Flask view, get_field_class called in a Lambda
\* container, the Batch container entry point, a distributed task worker.
Shapes == {"http", "lambda", "batch", "task"}

Fids == {"fid_1", "fid_2"}
Buckets == {"bucket_a", "bucket_b"}
ModelNames == {"classifier.joblib", "other.joblib"}
Missing == "missing"

\* The inputs a request may carry in each shape.
RequestsOf(sh) ==
    IF sh = "http"
    THEN [geom : Areas \cup {Missing}, fid : Fids \cup {Missing},
          bucket : {"dl"}, model : {"classifier.joblib"}]
    ELSE IF sh = "task"
    THEN [geom : Areas, fid : Fids, bucket : {"dl"}, model : {"classifier.joblib"}]
    ELSE [geom : Areas, fid : Fids, bucket : Buckets, model : ModelNames]

NoRequest == [geom |-> Missing, fid |-> Missing, bucket |-> "none", model |-> "none"]
NoLocals == [geom |-> Missing, fid |-> Missing]
NoResponse == [kind |-> "none", class |-> -1, fid |-> Missing]
AbsentFile == [state |-> "absent", content |-> NoArtifact]

VARIABLES
    shape,      \* deployment shape of the process
    tseries_of, \* tseries_of[a]: what get_ndvi_tseries yields for field a here
    pc,         \* pc[r]: where request r is in its handler
    req,        \* req[r]: the inputs r arrived with
    loc,        \* loc[r]: the handler's locals geom and fid
    file,       \* file[m]: the local model file of name m
    fetchCount, \* fetchCount[m]: remote fetches of m started by this process
    clf,        \* clf[r]: the classifier r loaded
    ndvi_ts,    \* ndvi_ts[r]: the resampled series r extracted
    resp,       \* resp[r]: the result returned, or the error raised
    trace,      \* trace[r]: the steps r has taken, in order
    predict_tasks, \* the tasks async_func.map submitted: (geometry, field id)
    tstate,     \* tstate[t]: pending, running, success or failure
    tresult,    \* tresult[t]: task.result of a completed task
    yielded,    \* the tasks as_completed has handed to the loop
    class_col,  \* ia_fields_predict_sample["class"], by field id
    failed_tasks, \* the list the loop appends failed tasks to
    loop,       \* the notebook cell being run: collecting, collected, rerun
    attempts    \* attempts[t]: times the platform has started task t

fanVars == <<predict_tasks, tstate, tresult, yielded, class_col, failed_tasks, loop, attempts>>

envVars == <<tseries_of>>

procVars == <<shape, pc, req, loc, file, fetchCount, clf, ndvi_ts, resp, trace>>

\* The environment of a process: the installed interp1d and the remote catalog.
EnvInit ==
    tseries_of \in {TseriesOf(mv) : mv \in MinvalChoices}

EnvIdle ==
    tseries_of = <<>>

ProcInit ==
    /\ shape \in Shapes
    /\ pc = [r \in Requests |-> "new"]
    /\ req = [r \in Requests |-> NoRequest]
    /\ loc = [r \in Requests |-> NoLocals]
    /\ file = [m \in ModelNames |-> AbsentFile]
    /\ fetchCount = [m \in ModelNames |-> 0]
    /\ clf = [r \in Requests |-> NoArtifact]
    /\ ndvi_ts = [r \in Requests |-> <<>>]
    /\ resp = [r \in Requests |-> NoResponse]
    /\ trace = [r \in Requests |-> <<>>]

Running(r) == pc[r] \notin {"new", "done", "failed"}

\* The Flask server handles requests concurrently; a Lambda container and a
\* task worker take one invocation at a time; a Batch container runs one job.
MayStart(r) ==
    /\ \A q \in Requests : q < r => pc[q] # "new"
    /\ shape \in {"lambda", "task"} => \A q \in Requests : ~Running(q)
    /\ shape = "batch" => \A q \in Requests : pc[q] = "new"

\* Variant: the result object built without the caller's fid.
ResultWithoutFid(class, fid) == [kind |-> "ok", class |-> class, fid |-> ""]

\* The result object: {"class": ..., "fid": fid}.
Result(class, fid) == [kind |-> "ok", class |-> class, fid |-> fid]
Failure(kind, fid) == [kind |-> kind, class |-> -1, fid |-> fid]

\* Variant: the error is reported with the fid of the request.
FailWithFid(r, kind) ==
    /\ pc' = [pc EXCEPT ![r] = "failed"]
    /\ resp' = [resp EXCEPT ![r] = Failure(kind, req'[r].fid)]

\* An exception leaves the handler: the request fails, nothing is returned.
Fail(r, kind) ==
    /\ pc' = [pc EXCEPT ![r] = "failed"]
    /\ resp' = [resp EXCEPT ![r] = Failure(kind, Missing)]

\* The remote fetch, as one step of request r.
FetchStep(r) ==
    /\ fetchCount' = [fetchCount EXCEPT ![req[r].model] = @ + 1]
    /\ trace' = [trace EXCEPT ![r] = Append(@, "fetch")]

\* content["geometry"] and the optional "fid" of the Flask view; the other
\* shapes take geom and fid as arguments.
\* Variant: the else branch of the "fid" test left out.
ParsedFidKept(q) == q.fid

ParsedFid(q) == IF q.fid = Missing THEN "" ELSE q.fid

\* Variant: every handler extracts the time series first.
AfterParseTseriesFirst == "tseries"

\* classify_ndvi begins with get_ndvi_tseries, get_field_class with the test
\* for the local model file.
AfterParse == IF shape = "task" THEN "tseries" ELSE "check"

\* Variant: the model is fetched before content["geometry"] is read.
ParseAfterFetch(r, q) ==
    IF q.geom = Missing
    THEN /\ Fail(r, "KeyError")
         /\ fetchCount' = [fetchCount EXCEPT ![q.model] = @ + 1]
         /\ trace' = [trace EXCEPT ![r] = Append(@, "fetch")]
         /\ UNCHANGED loc
    ELSE /\ loc' = [loc EXCEPT ![r] = [geom |-> q.geom, fid |-> ParsedFid(q)]]
         /\ pc' = [pc EXCEPT ![r] = AfterParse]
         /\ UNCHANGED <<resp, fetchCount, trace>>

\* geom and fid are taken from the inputs q: a body without "geometry" raises
\* KeyError there and then.
Parse(r, q) ==
    IF q.geom = Missing
    THEN /\ Fail(r, "KeyError")
         /\ UNCHANGED <<loc, fetchCount, trace>>
    ELSE /\ loc' = [loc EXCEPT ![r] = [geom |-> q.geom, fid |-> ParsedFid(q)]]
         /\ pc' = [pc EXCEPT ![r] = AfterParse]
         /\ UNCHANGED <<resp, fetchCount, trace>>

\* A request arrives: its handler is entered and reads its inputs.
Receive(r) ==
    /\ pc[r] = "new"
    /\ MayStart(r)
    /\ \E q \in RequestsOf(shape) :
        /\ req' = [req EXCEPT ![r] = q]
        /\ Parse(r, q)
    /\ UNCHANGED <<tsVars, batchVars, fanVars, envVars, shape, file, clf, ndvi_ts>>

\* Variant: the existence test looks at another path and never hits.
CacheHitNever(m) == FALSE

\* if not osp.exists(path): a file being written exists already.
CacheHit(m) == file[m].state # "absent"

\* Variant: a cached file counts only when it came from the request's bucket.
CheckCacheByBucket(r) ==
    /\ pc[r] = "check"
    /\ pc' = [pc EXCEPT ![r] =
                IF CacheHit(req[r].model) /\ file[req[r].model].content.store = req[r].bucket
                THEN "load" ELSE "fetch"]
    /\ UNCHANGED <<tsVars, batchVars, fanVars, envVars, shape, req, loc, file, fetchCount, clf, ndvi_ts, resp, trace>>

\* temp_file_path = osp.join("/tmp/models", model_name); if not osp.exists(...)
CheckCache(r) ==
    /\ pc[r] = "check"
    /\ pc' = [pc EXCEPT ![r] = IF CacheHit(req[r].model) THEN "load" ELSE "fetch"]
    /\ UNCHANGED <<tsVars, batchVars, fanVars, envVars, shape, req, loc, file, fetchCount, clf, ndvi_ts, resp, trace>>

\* s3.download_file writes a temporary file and renames it; dl.storage.get_file
\* opens the destination and streams into it.
AtomicDownload == shape \in {"lambda", "batch"}

\* The download: it fails (the error propagates) or the file appears.
Download(r) ==
    \E ok \in BOOLEAN :
        IF ~ok
        THEN /\ Fail(r, "RemoteError")
             /\ UNCHANGED file
        ELSE /\ file' = [file EXCEPT ![req[r].model] =
                    [state |-> IF AtomicDownload THEN "complete" ELSE "partial",
                     content |-> Artifact(req[r].bucket, req[r].model)]]
             /\ pc' = [pc EXCEPT ![r] = IF AtomicDownload THEN "load" ELSE "write"]
             /\ UNCHANGED resp

\* Variant: a fetch-once guard, the existence test repeated before fetching.
BeginFetchGuarded(r) ==
    /\ pc[r] = "fetch"
    /\ IF CacheHit(req[r].model)
       THEN /\ pc' = [pc EXCEPT ![r] = "load"]
            /\ UNCHANGED <<fetchCount, trace, file, resp>>
       ELSE /\ FetchStep(r)
            /\ Download(r)
    /\ UNCHANGED <<tsVars, batchVars, fanVars, envVars, shape, req, loc, clf, ndvi_ts>>

\* The remote fetch of a request that found no local file.
BeginFetch(r) ==
    /\ pc[r] = "fetch"
    /\ FetchStep(r)
    /\ Download(r)
    /\ UNCHANGED <<tsVars, batchVars, fanVars, envVars, shape, req, loc, clf, ndvi_ts>>

\* The last byte is written: the file is whole unless another writer is at it.
EndFetch(r) ==
    /\ pc[r] = "write"
    /\ file' = [file EXCEPT ![req[r].model].state =
                  IF \E q \in Requests \ {r} : pc[q] = "write" /\ req[q].model = req[r].model
                  THEN "partial" ELSE "complete"]
    /\ pc' = [pc EXCEPT ![r] = "load"]
    /\ UNCHANGED <<tsVars, batchVars, fanVars, envVars, shape, req, loc, fetchCount, clf, ndvi_ts, resp, trace>>

\* The prediction and the result object returned: the last, local statements of
\* the handler, run with the classifier c and the series values.
Predict(r, c, values) ==
    LET class == PredictClass(c, values)
    IN  IF class = -1
        THEN Fail(r, "ValueError")
        ELSE /\ resp' = [resp EXCEPT ![r] = Result(class, loc[r].fid)]
             /\ pc' = [pc EXCEPT ![r] = "done"]

\* clf = load(path): a file still being written does not deserialize.  In
\* classify_ndvi the prediction follows at once.
Load(r) ==
    /\ pc[r] = "load"
    /\ IF file[req[r].model].state = "complete"
       THEN /\ clf' = [clf EXCEPT ![r] = file[req[r].model].content]
            /\ IF shape = "task"
               THEN /\ Predict(r, file[req[r].model].content, ndvi_ts[r])
                    /\ trace' = [trace EXCEPT ![r] = @ \o <<"load", "predict">>]
               ELSE /\ pc' = [pc EXCEPT ![r] = "tseries"]
                    /\ trace' = [trace EXCEPT ![r] = Append(@, "load")]
                    /\ UNCHANGED resp
       ELSE /\ Fail(r, "LoadError")
            /\ trace' = [trace EXCEPT ![r] = Append(@, "load")]
            /\ UNCHANGED clf
    /\ UNCHANGED <<tsVars, batchVars, fanVars, envVars, shape, req, loc, file, fetchCount, ndvi_ts>>

\* Variant: classify_ndvi tests for the local file like get_field_class.
AfterTseriesCheck == "check"

\* classify_ndvi: dl.storage.get_file follows get_ndvi_tseries with no test.
AfterTseries == "fetch"

\* Variant: a remote error is caught and an empty series stands in.
TseriesCallCaught(ok, geom) ==
    IF ok THEN tseries_of[geom] ELSE Returned(<<>>, <<>>)

\* get_ndvi_tseries(geom) as the handler sees it: the catalog search and the
\* raster download are remote calls (ok: they answered); their errors propagate.
TseriesCall(ok, geom) ==
    IF ok THEN tseries_of[geom] ELSE Raised("RemoteError")

\* ndvi_ts, ndvi_dates = get_ndvi_tseries(geom): a remote error or an error of
\* the function itself leaves the handler.  In get_field_class the prediction
\* follows at once.
Tseries(r) ==
    /\ pc[r] = "tseries"
    /\ \E ok \in BOOLEAN :
        LET out == TseriesCall(ok, loc[r].geom)
            searched == IF ok THEN "search" ELSE "search_error"
        IN  IF out.kind # "ok"
            THEN /\ Fail(r, out.kind)
                 /\ trace' = [trace EXCEPT ![r] = Append(@, searched)]
                 /\ UNCHANGED ndvi_ts
            ELSE /\ ndvi_ts' = [ndvi_ts EXCEPT ![r] = out.values]
                 /\ IF shape = "task"
                    THEN /\ pc' = [pc EXCEPT ![r] = AfterTseries]
                         /\ trace' = [trace EXCEPT ![r] = Append(@, searched)]
                         /\ UNCHANGED resp
                    ELSE /\ Predict(r, clf[r], out.values)
                         /\ trace' = [trace EXCEPT ![r] = @ \o <<searched, "predict">>]
    /\ UNCHANGED <<tsVars, batchVars, fanVars, envVars, shape, req, loc, file, fetchCount, clf>>

\* ------------------------------------------------- the Batch job round trip
\* Points per ring of a submitted polygon.
MaxPoints == 2

\* Python sequences: a list or a tuple of items.  sg.mapping gives tuples,
\* a GeoJSON literal gives lists; (1, 2) == [1, 2] is False.
PyList == "list"
PyTuple == "tuple"
PySeq(kind, items) == [seq |-> kind, items |-> items]

\* A polygon geometry dict of one ring; coordinates are small integers
\* (a float survives json.dumps and json.loads unchanged).
Polygon(kinds, ring) ==
    [type |-> "Polygon",
     coordinates |->
        PySeq(kinds[1],
            << PySeq(kinds[2],
                [i \in 1..Len(ring) |-> PySeq(kinds[3], <<ring[i][1], ring[i][2]>>)]) >>)]

Geoms ==
    { Polygon(kinds, ring) :
        kinds \in [1..3 -> {PyList, PyTuple}],
        ring \in UNION { [1..n -> {0, 1} \X {0, 1}] : n \in 1..MaxPoints } }

\* JSON text, as its sequence of tokens.
Punct(c) == [k |-> "punct", s |-> c, n |-> 0]
JStr(str) == [k |-> "string", s |-> str, n |-> 0]
JNum(num) == [k |-> "number", s |-> "", n |-> num]
\* A command-line argument that is not JSON: the string itself.
Raw(str) == << [k |-> "raw", s |-> str, n |-> 0] >>

RECURSIVE DumpsItems(_, _)
\* json.dumps of a list or a tuple, three levels deep at most: both are
\* written as a JSON array.
DumpsSeq(v, depth) ==
    <<Punct("[")>> \o DumpsItems(v.items, depth) \o <<Punct("]")>>

DumpsItems(items, depth) ==
    IF items = <<>> THEN <<>>
    ELSE (IF depth = 1 THEN <<JNum(Head(items))>> ELSE DumpsSeq(Head(items), depth - 1))
         \o (IF Len(items) = 1 THEN <<>>
             ELSE <<Punct(",")>> \o DumpsItems(Tail(items), depth))

\* json.dumps(geom) of a geometry dict.
Dumps(g) ==
    << Punct("{"), JStr("type"), Punct(":"), JStr(g.type), Punct(","),
       JStr("coordinates"), Punct(":") >>
    \o DumpsSeq(g.coordinates, 3) \o << Punct("}") >>

RECURSIVE LoadsItems(_, _, _)
\* json.loads of the value starting at token i: the value and the index of
\* the token after it.  An array is read as a list.
LoadsValue(toks, i) ==
    IF toks[i].k = "number" THEN [val |-> toks[i].n, next |-> i + 1]
    ELSE IF toks[i].k = "string" THEN [val |-> toks[i].s, next |-> i + 1]
    ELSE LoadsItems(toks, i + 1, <<>>)

LoadsItems(toks, i, acc) ==
    IF toks[i] = Punct("]") THEN [val |-> PySeq(PyList, acc), next |-> i + 1]
    ELSE IF toks[i] = Punct(",") THEN LoadsItems(toks, i + 1, acc)
    ELSE LET item == LoadsValue(toks, i)
         IN  LoadsItems(toks, item.next, Append(acc, item.val))

RECURSIVE LoadsMembers(_, _, _)
\* The members of a JSON object, read into a dict.
LoadsMembers(toks, i, acc) ==
    IF toks[i] = Punct("}") THEN acc
    ELSE IF toks[i] = Punct(",") THEN LoadsMembers(toks, i + 1, acc)
    ELSE LET member == LoadsValue(toks, i + 2)
         IN  LoadsMembers(toks, member.next, acc @@ (toks[i].s :> member.val))

\* json.loads(geom_str)
Loads(toks) == LoadsMembers(toks, 2, <<>>)

\* Variant: bucket and id change places in the command.
CmdBucketFirst(geom, fid, s3_bucket, model_name) ==
    << Dumps(geom), Raw(s3_bucket), Raw(fid), Raw(model_name) >>

\* cmd = [json.dumps(geom), fid, s3_bucket, model_name]
Cmd(geom, fid, s3_bucket, model_name) ==
    << Dumps(geom), Raw(fid), Raw(s3_bucket), Raw(model_name) >>

NotCalled == [geom |-> <<>>, fid |-> "", s3_bucket |-> "", model_name |-> ""]

BatchIdle ==
    /\ submitted = NotCalled
    /\ command = <<>>
    /\ called = NotCalled
    /\ logged = NoResponse

\* submit_job(geom, fid, s3_bucket, model_name) is about to be called.
BatchInit ==
    /\ submitted \in [geom : Geoms, fid : Fids, s3_bucket : Buckets, model_name : ModelNames]
    /\ command = <<>>
    /\ called = NotCalled
    /\ logged = NoResponse

\* submit_job: the command of the job is the four arguments, geometry dumped.
SubmitJob ==
    /\ command = <<>>
    /\ command' = Cmd(submitted.geom, submitted.fid, submitted.s3_bucket, submitted.model_name)
    /\ UNCHANGED <<submitted, called, logged>>
    /\ UNCHANGED <<tsIn, tsOut, pxVars, mkVars, envVars, procVars, fanVars>>

\* The container runs python3 -m app.dl_aws_batch with the command as its
\* arguments: click binds them in order to geom_str, fid, s3_bucket and
\* model_name; the geometry is parsed and get_field_class is called, whose
\* result (any of its outcomes) is logged and returned.
RunBatchFieldModel ==
    /\ command # <<>>
    /\ called = NotCalled
    /\ LET geom_str == command[1]
           fid == command[2][1].s
           s3_bucket == command[3][1].s
           model_name == command[4][1].s
           geom == Loads(geom_str)
       IN  /\ called' = [geom |-> geom, fid |-> fid,
                         s3_bucket |-> s3_bucket, model_name |-> model_name]
           /\ \E outcome \in {Result(0, fid), Result(1, fid), Failure("Error", Missing)} :
                 logged' = outcome
    /\ UNCHANGED <<submitted, command>>
    /\ UNCHANGED <<tsIn, tsOut, pxVars, mkVars, envVars, procVars, fanVars>>

\* ------------------------------------------------- the distributed fan-out
\* Tasks submitted by async_func.map (500 in the notebook).
MaxTasks == 10
\* maximum_concurrency of the task group (150 in the notebook).
maximum_concurrency == 2
\* Every p-th submitted geometry has no imagery, so that its task raises.
RaisePeriods == {3, 10}

\* Row k of the sampled reference fields: its FBndID and its geometry.
FieldGeom(k, p) ==
    IF k % p = 0 THEN "field_none"
    ELSE IF k % 2 = 0 THEN "field_low" ELSE "field_ok"

\* predict_idx = np.random.choice(...) draws with replacement: with dup the
\* second task repeats the first row.
SampleTasks(n, p, dup) ==
    [i \in 1..n |->
        LET k == IF dup /\ i = 2 THEN 1 ELSE i
        IN  [geom |-> FieldGeom(k, p), fid |-> k]]

\* classify_ndvi(geom, field_id) as the task group runs it: the value of
\* task.result, or the failure of the task.
ClassifyNdvi(geom, field_id) ==
    LET out == tseries_of[geom]
        cid == PredictClass(Artifact("dl", "classifier.joblib"), out.values)
    IN  IF out.kind # "ok" \/ cid = -1
        THEN [is_success |-> FALSE, result |-> <<-1, field_id>>]
        ELSE [is_success |-> TRUE, result |-> <<cid, field_id>>]

Tasks == 1..Len(predict_tasks)
FidsOf(tasks) == {tasks[i].fid : i \in 1..Len(tasks)}

\* The state when the collection cell starts: every task submitted, the class
\* column set to 0, failed_tasks empty.
FanInit ==
    /\ \E n \in 1..MaxTasks, p \in RaisePeriods, dup \in BOOLEAN :
        /\ predict_tasks = SampleTasks(n, p, dup)
        /\ tstate = [t \in 1..n |-> "pending"]
        /\ tresult = [t \in 1..n |-> <<-1, -1>>]
        /\ attempts = [t \in 1..n |-> 0]
        /\ class_col = [f \in FidsOf(SampleTasks(n, p, dup)) |-> 0]
    /\ yielded = {}
    /\ failed_tasks = <<>>
    /\ loop = "collecting"

FanIdle ==
    /\ predict_tasks = <<>>
    /\ tstate = <<>>
    /\ tresult = <<>>
    /\ attempts = <<>>
    /\ class_col = <<>>
    /\ yielded = {}
    /\ failed_tasks = <<>>
    /\ loop = "none"

\* The platform starts the oldest pending task when a worker is free.
StartTask(t) ==
    /\ tstate[t] = "pending"
    /\ \A u \in Tasks : u < t => tstate[u] # "pending"
    /\ Cardinality({u \in Tasks : tstate[u] = "running"}) < maximum_concurrency
    /\ tstate' = [tstate EXCEPT ![t] = "running"]
    /\ attempts' = [attempts EXCEPT ![t] = @ + 1]
    /\ UNCHANGED <<tsVars, batchVars, envVars, procVars, predict_tasks, tresult, yielded, class_col,
                   failed_tasks, loop>>

\* A worker finishes classify_ndvi: the task succeeds or fails.
FinishTask(t) ==
    /\ tstate[t] = "running"
    /\ LET out == ClassifyNdvi(predict_tasks[t].geom, predict_tasks[t].fid)
       IN  /\ tstate' = [tstate EXCEPT ![t] = IF out.is_success THEN "success" ELSE "failure"]
           /\ tresult' = [tresult EXCEPT ![t] = out.result]
    /\ UNCHANGED <<tsVars, batchVars, envVars, procVars, predict_tasks, yielded, class_col, failed_tasks,
                   loop, attempts>>

\* Variant: as_completed yields successful tasks only.
CompletedIfSuccess(t) == tstate[t] = "success"

\* as_completed yields a task once it is in a terminal state.
Completed(t) == tstate[t] \in {"success", "failure"}

\* Variant: the class is written to the next row in order of arrival.
HandleSuccessByPosition(t) ==
    LET cid == tresult[t][1]
        field_id == predict_tasks[Cardinality(yielded) + 1].fid
    IN  /\ class_col' = [class_col EXCEPT ![field_id] = cid]
        /\ UNCHANGED <<failed_tasks, tstate>>

\* if task.is_success: the class is written to the row of the returned field id.
HandleSuccess(t) ==
    LET cid == tresult[t][1]
        field_id == tresult[t][2]
    IN  /\ class_col' = [class_col EXCEPT ![field_id] = cid]
        /\ UNCHANGED <<failed_tasks, tstate>>

\* Variant: the else branch left out.
HandleFailureDropped(t) == UNCHANGED <<failed_tasks, class_col, tstate>>

\* Variant: the loop submits a failed task again.
HandleFailureResubmit(t) ==
    /\ failed_tasks' = Append(failed_tasks, t)
    /\ tstate' = [tstate EXCEPT ![t] = "running"]
    /\ UNCHANGED class_col

\* Variant: a failed task marks the row of its field with -1.
HandleFailureMarked(t) ==
    /\ failed_tasks' = Append(failed_tasks, t)
    /\ class_col' = [class_col EXCEPT ![predict_tasks[t].fid] = -1]
    /\ UNCHANGED tstate

\* else: failed_tasks.append(task)
HandleFailure(t) ==
    /\ failed_tasks' = Append(failed_tasks, t)
    /\ UNCHANGED <<class_col, tstate>>

\* One iteration of "for task in as_completed(predict_tasks)": a completed
\* task is yielded once; the loop ends with the last one.
Collect(t) ==
    /\ loop = "collecting"
    /\ Completed(t)
    /\ t \notin yielded
    /\ yielded' = yielded \cup {t}
    /\ IF tstate[t] = "success" THEN HandleSuccess(t) ELSE HandleFailure(t)
    /\ loop' = IF yielded' = Tasks THEN "collected" ELSE "collecting"
    /\ UNCHANGED <<tsVars, batchVars, envVars, procVars, predict_tasks, tresult, attempts>>

\* dl.tasks.rerun_failed_tasks(group_id): the platform queues the failed tasks
\* of the group again.  The notebook does not collect them a second time.
RerunFailedTasks ==
    /\ loop = "collected"
    /\ tstate' = [t \in Tasks |-> IF tstate[t] = "failure" THEN "pending" ELSE tstate[t]]
    /\ loop' = "rerun"
    /\ UNCHANGED <<tsVars, batchVars, envVars, procVars, predict_tasks, tresult, yielded, class_col,
                   failed_tasks, attempts>>

\* ------------------------------------------------------------ specifications
vars == <<tsVars, batchVars, envVars, procVars, fanVars>>

ProcIdle ==
    /\ shape = "none"
    /\ pc = [r \in Requests |-> "new"]
    /\ req = [r \in Requests |-> NoRequest]
    /\ loc = [r \in Requests |-> NoLocals]
    /\ file = [m \in ModelNames |-> AbsentFile]
    /\ fetchCount = [m \in ModelNames |-> 0]
    /\ clf = [r \in Requests |-> NoArtifact]
    /\ ndvi_ts = [r \in Requests |-> <<>>]
    /\ resp = [r \in Requests |-> NoResponse]
    /\ trace = [r \in Requests |-> <<>>]

\* Band values of a pixel, in units of reflectance: 0..MaxBand.
MaxBand == 10

NotComputed == <<>>

PxIdle ==
    /\ pxIn = [red |-> 0, nir |-> 0]
    /\ pxOut = NotComputed

PxInit ==
    /\ pxIn \in [red : 0..MaxBand, nir : 0..MaxBand]
    /\ pxOut = NotComputed

\* ndvi = (nir - red)/(nir + red) at one pixel.
NdviCall ==
    /\ pxOut = NotComputed
    /\ pxOut' = NdviPixel(pxIn.red, pxIn.nir)
    /\ UNCHANGED <<tsIn, tsOut, pxIn, mkVars, batchVars, envVars, procVars, fanVars>>

\* The stack with its cloud_mask band replaced by cloud (per day, per pixel).
WithCloudBand(stack, cloud) ==
    [d \in 1..Len(stack) |-> [stack[d] EXCEPT !.data[CloudBand] = cloud[d]]]

\* A cloud_mask band: per day, pixel 1 flagged with fa and every other with fb.
CloudBands(n) ==
    { [d \in 1..n |-> [p \in Pixels |-> IF p = 1 THEN f[d][1] ELSE f[d][2]]] :
        f \in [1..n -> {0, CloudFlag} \X {0, CloudFlag}] }

MkIdle ==
    /\ mkIn = [scenes |-> <<>>, cloud2 |-> <<>>]
    /\ mkOut = NotComputed

\* A stack of 1..MaxDays days of clear, cloudy and already masked pixels.
MkInit ==
    /\ \E n \in 1..MaxDays :
        \E ka \in [1..n -> {ClearHigh, Cloudy, PreMasked}],
           kb \in [1..n -> {ClearHigh, Cloudy, PreMasked}],
           cloud \in CloudBands(n) :
            mkIn = [scenes |-> [d \in 1..n |-> Image((d - 1) * RevisitDays, ka[d], kb[d])],
                    cloud2 |-> cloud]
    /\ mkOut = NotComputed

\* A stack of 1..MaxDays days of every pixel kind, its own cloud_mask band
\* standing for the second one.
AggInit ==
    /\ \E n \in 1..MaxDays :
        \E ka \in [1..n -> PixelKinds \cup {Dark}], kb \in [1..n -> PixelKinds \cup {Dark}] :
            LET c == [d \in 1..n |-> Image((d - 1) * RevisitDays, ka[d], kb[d])]
            IN  mkIn = [scenes |-> c, cloud2 |-> [d \in 1..n |-> c[d].data[CloudBand]]]
    /\ mkOut = NotComputed

\* The masking and aggregation steps of get_ndvi_tseries, run on the stack and
\* on the same stack with the second cloud_mask band.
MaskCall ==
    /\ mkOut = NotComputed
    /\ LET stack1 == MaskClouds(Stack(mkIn.scenes))
           stack2 == MaskClouds(WithCloudBand(Stack(mkIn.scenes), mkIn.cloud2))
       IN  mkOut' = [stack1 |-> stack1, ndvi_ts1 |-> MaMedian(Ndvi(stack1)),
                     stack2 |-> stack2, ndvi_ts2 |-> MaMedian(Ndvi(stack2))]
    /\ UNCHANGED <<tsIn, tsOut, pxVars, mkIn, batchVars, envVars, procVars, fanVars>>

TsIdle ==
    /\ tsIn = [scenes |-> <<>>, start |-> DefaultStart, end |-> DefaultEnd, minval |-> 1]
    /\ tsOut = Pending

TsInit ==
    /\ tsIn \in [scenes : SceneCollections(MaxDays) \cup {ThreeClearDays, CloudyThenClear}, start : {DefaultStart},
                 end : EndDates, minval : MinvalChoices]
    /\ tsOut = Pending

\* One call of get_ndvi_tseries(geom, start_date, end_date).
TsCall ==
    /\ tsOut = Pending
    /\ tsOut' = GetNdviTseries(tsIn.scenes, tsIn.start, tsIn.end, tsIn.minval)
    /\ UNCHANGED <<tsIn, pxVars, mkVars, batchVars, envVars, procVars, fanVars>>


Init == EnvInit /\ ProcInit /\ TsIdle /\ PxIdle /\ MkIdle /\ BatchIdle /\ FanIdle

Next ==
    \/ \E r \in Requests : Receive(r)
    \/ \E r \in Requests : CheckCache(r)
    \/ \E r \in Requests : BeginFetch(r)
    \/ \E r \in Requests : EndFetch(r)
    \/ \E r \in Requests : Load(r)
    \/ \E r \in Requests : Tseries(r)

\* The request handlers of one process, in each deployment shape.
Spec == Init /\ [][Next]_vars

InitFan == EnvInit /\ FanInit /\ ProcIdle /\ TsIdle /\ PxIdle /\ MkIdle /\ BatchIdle

NextFan ==
    \/ \E t \in Tasks : StartTask(t)
    \/ \E t \in Tasks : FinishTask(t)
    \/ \E t \in Tasks : Collect(t)
    \/ RerunFailedTasks

\* The task group and the notebook's collection loop.
SpecFan == InitFan /\ [][NextFan]_vars

InitTs == EnvIdle /\ TsInit /\ PxIdle /\ MkIdle /\ BatchIdle /\ ProcIdle /\ FanIdle

NextTs == TsCall

\* get_ndvi_tseries alone, over the scene collections of SceneCollections.
SpecTs == InitTs /\ [][NextTs]_vars

InitPx == EnvIdle /\ TsIdle /\ PxInit /\ MkIdle /\ BatchIdle /\ ProcIdle /\ FanIdle

NextPx == NdviCall

InitMk == EnvIdle /\ TsIdle /\ PxIdle /\ MkInit /\ BatchIdle /\ ProcIdle /\ FanIdle

NextMk == MaskCall

\* Cloud masking and the per-day median alone, over stacks and cloud bands.
SpecMk == InitMk /\ [][NextMk]_vars

InitBatch == EnvIdle /\ TsIdle /\ PxIdle /\ MkIdle /\ BatchInit /\ ProcIdle /\ FanIdle

NextBatch ==
    \/ SubmitJob
    \/ RunBatchFieldModel

\* A job submitted to Batch and run by the container's command line.
SpecBatch == InitBatch /\ [][NextBatch]_vars

InitAgg == EnvIdle /\ TsIdle /\ PxIdle /\ AggInit /\ BatchIdle /\ ProcIdle /\ FanIdle

\* Masking, index and per-day median over stacks of every pixel kind.
SpecAgg == InitAgg /\ [][NextMk]_vars

\* The platform starts and finishes every queued task, and the notebook's
\* loop keeps taking what as_completed yields.
FanFairness ==
    /\ WF_vars(\E t \in Tasks : StartTask(t))
    /\ WF_vars(\E t \in Tasks : FinishTask(t))
    /\ WF_vars(\E t \in Tasks : Collect(t))

SpecFanLive == SpecFan /\ FanFairness

\* The index expression alone, over the band pairs of a pixel.
SpecPx == InitPx /\ [][NextPx]_vars

\* ------------------------------------------------------------------ claims
InTrace(r, step) == \E i \in 1..Len(trace[r]) : trace[r][i] = step

\* Request q's remote fetch of the model was successful.
FetchedOk(q) == InTrace(q, "fetch") /\ resp[q].kind # "RemoteError"

\* The local file of model m is whole and no request that found it missing is
\* still about to fetch or write it.
Settled(m) ==
    /\ file[m].state = "complete"
    /\ \A q \in Requests : req[q].model = m => pc[q] \notin {"fetch", "write"}

\* C1: in get_field_class (HTTP, Lambda, Batch), once a call has fetched the
\* model file successfully and the calls that ran beside it are past their
\* fetch, no later call fetches the remote artifact again: the file stays whole
\* and the fetch count of that model stays where it is.
C1_ModelCacheIdempotent ==
    [][shape # "task" =>
         \A m \in ModelNames :
             Settled(m) => Settled(m)' /\ fetchCount'[m] = fetchCount[m]]_vars

\* A later call has finished from the cached file, the count still 1.
C1_Witness ==
    \E q \in Requests, r \in Requests :
        /\ q < r
        /\ shape # "task"
        /\ req[q].model = req[r].model
        /\ FetchedOk(q)
        /\ pc[r] = "done"
        /\ ~InTrace(r, "fetch")
        /\ InTrace(r, "load")
        /\ fetchCount[req[r].model] = 1

\* The catalog search of request r returned zero scenes.
ZeroScenes(r) ==
    /\ loc[r].geom = "field_none"
    /\ InTrace(r, "search")
    /\ resp[r].kind # "RemoteError"

\* C3 (as amended): when the catalog search returns zero scenes, the request
\* ends in the uncaught ValueError the libraries raise, never in a result.
C3_ZeroScenesRaiseValueError ==
    \A r \in Requests :
        ZeroScenes(r) => pc[r] = "failed" /\ resp[r].kind = "ValueError"

C3_Witness ==
    \E r \in Requests :
        /\ ZeroScenes(r)
        /\ pc[r] = "failed"
        /\ resp[r].kind = "ValueError"
        /\ trace[r][Len(trace[r])] = "search"

\* C3 as stated: zero scenes end in the error outcome InsufficientDataError.
C3_Original ==
    \A r \in Requests :
        ZeroScenes(r) => pc[r] = "failed" /\ resp[r].kind = "InsufficientDataError"

\* C5: there is no single-fetch guard: a request that found the model file
\* missing leaves its fetch step only by fetching, whatever the other requests
\* have done to the file meanwhile.
C5_NoSingleFetchGuard ==
    [][\A r \in Requests :
          pc[r] = "fetch" /\ pc'[r] # "fetch" =>
              fetchCount'[req[r].model] = fetchCount[req[r].model] + 1]_vars

\* Two concurrent requests both found the file missing and both fetched it.
C5_Witness ==
    \E q \in Requests, r \in Requests :
        /\ q # r
        /\ shape = "http"
        /\ req[q].model = req[r].model
        /\ FetchedOk(q)
        /\ FetchedOk(r)
        /\ fetchCount[req[r].model] = 2

\* C6: in every deployment shape, the identifier in the result of a successful
\* request is the identifier supplied with the request.
C6_IdentifierPassedThrough ==
    \A r \in Requests :
        pc[r] = "done" /\ req[r].fid # Missing =>
            resp[r].kind = "ok" /\ resp[r].fid = req[r].fid

C6_Witness ==
    \E q \in Requests, r \in Requests :
        /\ pc[q] = "done" /\ pc[r] = "done"
        /\ req[q].fid = "fid_1" /\ resp[q].fid = "fid_1"
        /\ req[r].fid = "fid_2" /\ resp[r].fid = "fid_2"
        /\ req[q].geom = req[r].geom
        /\ resp[q].class = resp[r].class

\* C9: the Flask view accepts a body with "geometry" and no "fid": the handler
\* goes on with fid = "" and a response it returns carries the empty string.
C9_MissingFidIsEmptyString ==
    \A r \in Requests :
        /\ shape = "http"
        /\ req[r].geom # Missing
        /\ req[r].fid = Missing
        /\ pc[r] # "new"
        => /\ loc[r].fid = ""
           /\ resp[r].kind # "KeyError"
           /\ (pc[r] = "done" => resp[r].kind = "ok" /\ resp[r].fid = "")

C9_Witness ==
    \E r \in Requests :
        /\ shape = "http"
        /\ req[r].geom # Missing
        /\ req[r].fid = Missing
        /\ pc[r] = "done"
        /\ resp[r].fid = ""

\* C10: a request without "geometry" fails with KeyError in the step that
\* reads its body, having made no remote call, the model file and the fetch
\* counts as they were.
C10_MissingGeometryFailsFirst ==
    [][\A r \in Requests :
          pc[r] = "new" /\ pc'[r] # "new" /\ req'[r].geom = Missing =>
              /\ pc'[r] = "failed"
              /\ resp'[r].kind = "KeyError"
              /\ trace'[r] = <<>>
              /\ file' = file
              /\ fetchCount' = fetchCount]_vars

\* Such a request has failed while the cache holds what another one fetched.
C10_Witness ==
    \E q \in Requests, r \in Requests :
        /\ req[r].geom = Missing
        /\ pc[r] = "failed"
        /\ resp[r].kind = "KeyError"
        /\ trace[r] = <<>>
        /\ FetchedOk(q)
        /\ fetchCount[req[q].model] = 1

\* How often task t stands in failed_tasks.
TimesFailed(t) == Cardinality({i \in 1..Len(failed_tasks) : failed_tasks[i] = t})

\* The geometry of task t has no imagery: classify_ndvi raises.
Raises(t) == predict_tasks[t].geom = "field_none"

\* The class classify_ndvi returns for the geometry of task t.
ClassOf(t) == ClassifyNdvi(predict_tasks[t].geom, predict_tasks[t].fid).result[1]

Successes == {t \in Tasks : TimesFailed(t) = 0}

\* C2: when the collection loop has finished, every submitted task has been
\* yielded, a raising task stands in failed_tasks exactly once and wrote
\* nothing, any other task stands there not at all and its class is in the row
\* of its field id; with every 10th task raising, N - N/10 tasks succeeded and
\* failed_tasks has N/10 entries.
C2_EachTaskHandledOnce ==
    loop \in {"collected", "rerun"} =>
        /\ yielded = Tasks
        /\ \A t \in Tasks :
              IF Raises(t)
              THEN TimesFailed(t) = 1
              ELSE TimesFailed(t) = 0 /\ class_col[predict_tasks[t].fid] = ClassOf(t)
        /\ Len(failed_tasks) + Cardinality(Successes) = Len(predict_tasks)
        /\ (\A t \in Tasks : Raises(t) <=> t % 10 = 0) =>
              /\ Len(failed_tasks) = Len(predict_tasks) \div 10
              /\ Cardinality(Successes) = Len(predict_tasks) - Len(predict_tasks) \div 10

\* Ten tasks, the tenth raising: nine successes, one entry in failed_tasks.
C2_Witness ==
    /\ loop = "collected"
    /\ Len(predict_tasks) = 10
    /\ \A t \in Tasks : Raises(t) <=> t % 10 = 0
    /\ failed_tasks = <<10>>
    /\ Cardinality(Successes) = 9
    /\ \E t \in Tasks : class_col[predict_tasks[t].fid] = 1

\* C7: a task moves only from pending to running and from running to success
\* or failure; success is terminal, and a failed task leaves failure only in
\* the step of the platform's rerun_failed_tasks, which queues it again; the
\* collection loop never does.
C7_RequestStateMachine ==
    [][\A t \in Tasks :
          tstate'[t] # tstate[t] =>
              \/ tstate[t] = "pending" /\ tstate'[t] = "running"
              \/ tstate[t] = "running" /\ tstate'[t] \in {"success", "failure"}
              \/ /\ tstate[t] = "failure" /\ tstate'[t] = "pending"
                 /\ loop = "collected" /\ loop' = "rerun"]_vars

\* A failed and collected task runs a second time after rerun_failed_tasks.
C7_Witness ==
    \E t \in Tasks :
        /\ loop = "rerun"
        /\ TimesFailed(t) = 1
        /\ tstate[t] = "running"
        /\ attempts[t] = 2

\* Days of the call's input with at least one pixel neither masked nor cloud.
ClearDays(scenes) ==
    {d \in 1..Len(scenes) :
        \E p \in Pixels :
            /\ ~scenes[d].mask[RedBand][p]
            /\ ~scenes[d].mask[NirBand][p]
            /\ scenes[d].data[CloudBand][p] # CloudFlag}

\* ceil(a / b) for b > 0.
CeilDiv(a, b) == (a + b - 1) \div b

\* C4 (as amended): with at least 2 valid samples, get_ndvi_tseries returns a
\* vector of exactly ceil((end_date - start_date) / 6 days) - 1 elements, none
\* of them undefined.
C4_SeriesLengthCeil ==
    tsOut # Pending /\ Cardinality(ClearDays(tsIn.scenes)) >= 2 =>
        /\ tsOut.kind = "ok"
        /\ Len(tsOut.values) = CeilDiv(tsIn.end - tsIn.start, StepDays) - 1
        /\ Len(tsOut.dates) = Len(tsOut.values)
        /\ \A i \in 1..Len(tsOut.values) : ~IsNaN(tsOut.values[i])

\* The default range of 183 days gives 30 elements.
C4_Witness ==
    /\ tsOut.kind = "ok"
    /\ Cardinality(ClearDays(tsIn.scenes)) >= 2
    /\ tsIn.end - tsIn.start = 183
    /\ Len(tsOut.values) = 30
    /\ tsOut.values[1] # tsOut.values[30]

\* C4 as stated: the vector has (end_date - start_date) / 6 days - 1 elements.
C4_Original ==
    tsOut # Pending /\ Cardinality(ClearDays(tsIn.scenes)) >= 2 =>
        /\ tsOut.kind = "ok"
        /\ Len(tsOut.values) = (tsIn.end - tsIn.start) \div StepDays - 1
        /\ \A i \in 1..Len(tsOut.values) : ~IsNaN(tsOut.values[i])

\* C8: when every acquisition day of the stack is fully masked, the call ends
\* in an error (the ValueError of interp1d) and returns no vector.
C8_AllMaskedRaises ==
    tsOut # Pending /\ Len(tsIn.scenes) > 0 /\ ClearDays(tsIn.scenes) = {} =>
        /\ tsOut.kind = "ValueError"
        /\ tsOut.values = <<>>

C8_Witness ==
    /\ Len(tsIn.scenes) = MaxDays
    /\ ClearDays(tsIn.scenes) = {}
    /\ \E p \in Pixels : tsIn.scenes[1].data[CloudBand][p] = CloudFlag
    /\ \E p \in Pixels : tsIn.scenes[1].mask[RedBand][p]
    /\ tsOut.kind = "ValueError"

\* C11: when the catalog search or the raster download of a request errors, the
\* error propagates: the request ends failed with that error, no series is
\* kept, no class is predicted and no result is returned.
C11_RemoteErrorPropagates ==
    \A r \in Requests :
        InTrace(r, "search_error") =>
            /\ pc[r] = "failed"
            /\ resp[r] = Failure("RemoteError", Missing)
            /\ ndvi_ts[r] = <<>>
            /\ ~InTrace(r, "predict")

\* The search of a request with imagery errored after its classifier was loaded.
C11_Witness ==
    \E r \in Requests :
        /\ InTrace(r, "search_error")
        /\ loc[r].geom = "field_ok"
        /\ clf[r] # NoArtifact
        /\ pc[r] = "failed"
        /\ resp[r].kind = "RemoteError"

\* C12: for every pair of positive band values the normalized index
\* (nir - red) / (nir + red) is defined and lies in [-1, 1].
C12_IndexBounded ==
    pxOut # NotComputed /\ pxIn.red > 0 /\ pxIn.nir > 0 =>
        /\ ~IsNaN(pxOut)
        /\ RLe(Rat(-1), pxOut)
        /\ RLe(pxOut, Rat(1))

\* The index of red = MaxBand, nir = 1 is close to -1.
C12_Witness ==
    /\ pxIn.red = MaxBand
    /\ pxIn.nir = 1
    /\ pxOut = Norm(1 - MaxBand, 1 + MaxBand)
    /\ RLt(pxOut, Rat(0))

\* Masked entries of a stack, and masked days of a per-day median.
StackMaskCount(stack) ==
    Cardinality({t \in (1..Len(stack)) \X Bands \X Pixels : stack[t[1]].mask[t[2]][t[3]]})

MedianMaskCount(series) == Cardinality({d \in 1..Len(series) : series[d].mask})

\* The second cloud_mask band flags every pixel the stack's own band flags.
FlagsSuperset ==
    \A d \in 1..Len(mkIn.scenes), p \in Pixels :
        mkIn.scenes[d].data[CloudBand][p] = CloudFlag => mkIn.cloud2[d][p] = CloudFlag

\* C13: when the second cloud_mask band flags a superset of the pixels of the
\* first, the masked stack and the per-day median have at least as many
\* masked entries under the second as under the first.
C13_MaskingMonotone ==
    mkOut # NotComputed /\ FlagsSuperset =>
        /\ StackMaskCount(mkOut.stack2) >= StackMaskCount(mkOut.stack1)
        /\ MedianMaskCount(mkOut.ndvi_ts2) >= MedianMaskCount(mkOut.ndvi_ts1)

\* Strictly more cloud masks a day of the median that was valid before.
C13_Witness ==
    /\ mkOut # NotComputed
    /\ FlagsSuperset
    /\ StackMaskCount(mkOut.stack2) > StackMaskCount(mkOut.stack1)
    /\ MedianMaskCount(mkOut.ndvi_ts2) > MedianMaskCount(mkOut.ndvi_ts1)
    /\ MedianMaskCount(mkOut.ndvi_ts1) > 0

\* C20: after cloud masking an entry (day, band, pixel) is masked exactly when
\* it was masked before or the cloud_mask band of that day is 1 at that pixel:
\* the same cloud mask for every band, nothing unmasked, data untouched.
C20_MaskIsOldOrCloud ==
    mkOut # NotComputed =>
        /\ Len(mkOut.stack1) = Len(mkIn.scenes)
        /\ \A d \in 1..Len(mkIn.scenes), b \in Bands, p \in Pixels :
              /\ mkOut.stack1[d].mask[b][p] <=>
                    \/ mkIn.scenes[d].mask[b][p]
                    \/ mkIn.scenes[d].data[CloudBand][p] = CloudFlag
              /\ mkOut.stack1[d].data[b][p] = mkIn.scenes[d].data[b][p]

\* A day with one cloud pixel, one pixel masked before and neither flagged.
C20_Witness ==
    /\ mkOut # NotComputed
    /\ \E d \in 1..Len(mkIn.scenes), p \in Pixels, q \in Pixels :
          /\ mkIn.scenes[d].data[CloudBand][p] = CloudFlag
          /\ ~mkIn.scenes[d].mask[RedBand][p]
          /\ \A b \in Bands : mkOut.stack1[d].mask[b][p]
          /\ mkIn.scenes[d].mask[NirBand][q]
          /\ mkIn.scenes[d].data[CloudBand][q] # CloudFlag
          /\ \A b \in Bands : mkOut.stack1[d].mask[b][q]
    /\ \E d \in 1..Len(mkIn.scenes), p \in Pixels, b \in Bands : ~mkOut.stack1[d].mask[b][p]

\* Lists for tuples, all the way down: what a geometry is after JSON.
AsLists(g) ==
    [type |-> g.type,
     coordinates |->
        PySeq(PyList,
            [i \in 1..Len(g.coordinates.items) |->
                PySeq(PyList,
                    [j \in 1..Len(g.coordinates.items[i].items) |->
                        PySeq(PyList, g.coordinates.items[i].items[j].items)])])]

\* C14: run_batch_field_model calls the pipeline with the id, bucket and model
\* name given to submit_job, in that order, and with the submitted geometry
\* in which every tuple has become a list: equal to the submitted one exactly
\* when that held no tuple.
C14_BatchRoundTrip ==
    called # NotCalled =>
        /\ called.geom = AsLists(submitted.geom)
        /\ (called.geom = submitted.geom) <=> (submitted.geom = AsLists(submitted.geom))
        /\ called.fid = submitted.fid
        /\ called.s3_bucket = submitted.s3_bucket
        /\ called.model_name = submitted.model_name

\* A GeoJSON literal (lists only) comes back equal, with distinct bucket/id.
C14_Witness ==
    /\ called # NotCalled
    /\ submitted.geom = AsLists(submitted.geom)
    /\ called.geom = submitted.geom
    /\ Len(called.geom.coordinates.items[1].items) = MaxPoints
    /\ called.fid = "fid_2"
    /\ called.s3_bucket = "bucket_b"
    /\ logged = Result(1, "fid_2")

\* C14 as stated: the geometry the pipeline is called with equals the
\* submitted one, for every submitted geometry.
C14_Original ==
    called # NotCalled =>
        /\ called.geom = submitted.geom
        /\ called.fid = submitted.fid
        /\ called.s3_bucket = submitted.s3_bucket
        /\ called.model_name = submitted.model_name

\* What request r returns when it is the only request of a fresh process and
\* the remote services answer: its own inputs and the remote data decide it.
AloneOutcome(r) ==
    IF req[r].geom = Missing THEN Failure("KeyError", Missing)
    ELSE LET out == tseries_of[req[r].geom]
             class == PredictClass(Artifact(req[r].bucket, req[r].model), out.values)
         IN  IF out.kind # "ok" THEN Failure(out.kind, Missing)
             ELSE IF class = -1 THEN Failure("ValueError", Missing)
             ELSE Result(class, loc[r].fid)

\* C15: a request that ended without an error of the remote services has the
\* outcome it has when processed alone, whatever requests the process
\* handled before or beside it.
C15_Original ==
    \A r \in Requests :
        pc[r] \in {"done", "failed"} /\ resp[r].kind # "RemoteError" =>
            resp[r] = AloneOutcome(r)

\* The class column and the failed tasks as the submitted tasks and the
\* remote data alone fix them: no completion order appears.
ExpectedClasses ==
    [f \in FidsOf(predict_tasks) |->
        IF \E t \in Tasks : predict_tasks[t].fid = f /\ ~Raises(t)
        THEN ClassOf(CHOOSE t \in Tasks : predict_tasks[t].fid = f /\ ~Raises(t))
        ELSE 0]

ExpectedFailed == {t \in Tasks : Raises(t)}

\* C16: in whatever order the tasks complete and are yielded, the loop ends
\* with the same class in the row of each field id and the same set of
\* tasks in failed_tasks.
C16_CompletionOrderFree ==
    loop \in {"collected", "rerun"} =>
        /\ class_col = ExpectedClasses
        /\ {failed_tasks[i] : i \in 1..Len(failed_tasks)} = ExpectedFailed

\* A loop that took the later failure first and wrote both classes.
C16_Witness ==
    /\ loop = "collected"
    /\ failed_tasks = <<6, 3>>
    /\ \E f \in DOMAIN class_col : class_col[f] = 1
    /\ \E t \in Tasks : ~Raises(t) /\ ClassOf(t) = 0

\* The straight line through (day 0, 1/5) and (day 90, 1/2), at day d.
OnFirstSegment(d) ==
    RAdd(Norm(1, 5), RMul(RDiv(RSub(Norm(1, 2), Norm(1, 5)), Rat(90)), Rat(d - tsIn.start)))

\* C17: with cloud-free days of index 0.2, 0.5, 0.8 on days 0, 90, 180, every
\* returned grid point up to day 90 carries the linear interpolation of the
\* samples of day 0 and day 90, and the values do not decrease along the grid.
C17_ScenarioLinearMonotone ==
    tsOut # Pending /\ tsIn.scenes = ThreeClearDays =>
        /\ tsOut.kind = "ok"
        /\ \A i \in 1..Len(tsOut.values) :
              tsOut.dates[i] <= 90 =>
                  /\ tsOut.values[i] = OnFirstSegment(tsOut.dates[i])
                  /\ i > 1 => RLe(tsOut.values[i - 1], tsOut.values[i])

\* The default range: 11/50 on day 6 rising to 1/2 on day 90, the 15th point.
C17_Witness ==
    /\ tsIn.scenes = ThreeClearDays
    /\ tsIn.end = DefaultEnd
    /\ tsOut.kind = "ok"
    /\ tsOut.dates[1] = 6 /\ tsOut.values[1] = Norm(11, 50)
    /\ tsOut.dates[15] = 90 /\ tsOut.values[15] = Norm(1, 2)
    /\ \A i \in 2..15 : RLt(tsOut.values[i - 1], tsOut.values[i])

\* The library errors a request can end in.
ErrorKinds == {"KeyError", "RemoteError", "LoadError", "ValueError"}

ModelSteps(r) == {i \in 1..Len(trace[r]) : trace[r][i] \in {"fetch", "load"}}
SeriesSteps(r) == {i \in 1..Len(trace[r]) : trace[r][i] \in {"search", "search_error"}}

MaskedInBands(d, p) ==
    \/ mkIn.scenes[d].mask[RedBand][p]
    \/ mkIn.scenes[d].mask[NirBand][p]
    \/ mkIn.scenes[d].data[CloudBand][p] = CloudFlag

NoIndex(d, p) ==
    \/ MaskedInBands(d, p)
    \/ mkIn.scenes[d].data[RedBand][p] + mkIn.scenes[d].data[NirBand][p] = 0

IndexOf(d, p) ==
    Norm(mkIn.scenes[d].data[NirBand][p] - mkIn.scenes[d].data[RedBand][p],
         mkIn.scenes[d].data[NirBand][p] + mkIn.scenes[d].data[RedBand][p])

\* m is the median of the index values of day d: the mean of a lower and an
\* upper middle value, told by counting the values below and above.
IsMedianOfDay(m, d) ==
    LET valid == {p \in Pixels : ~NoIndex(d, p)}
        n == Cardinality(valid)
        below(p) == Cardinality({q \in valid : RLt(IndexOf(d, q), IndexOf(d, p))})
        above(p) == Cardinality({q \in valid : RLt(IndexOf(d, p), IndexOf(d, q))})
    IN  \E lo \in valid, hi \in valid :
            /\ below(lo) <= (n - 1) \div 2 /\ above(lo) <= n \div 2
            /\ below(hi) <= n \div 2 /\ above(hi) <= (n - 1) \div 2
            /\ m = RDiv(RAdd(IndexOf(d, lo), IndexOf(d, hi)), Rat(2))

C22_GridDates ==
    tsOut # Pending /\ tsOut.kind = "ok" =>
        /\ \A i \in 1..Len(tsOut.dates) :
              /\ tsOut.dates[i] = tsIn.start + StepDays * i
              /\ tsOut.dates[i] < tsIn.end
        /\ tsIn.start + StepDays * (Len(tsOut.dates) + 1) >= tsIn.end
        /\ \A i \in 2..Len(tsOut.dates) : tsOut.dates[i] - tsOut.dates[i - 1] = StepDays
        /\ Len(tsOut.values) = Len(tsOut.dates)

\* A range whose end falls on the grid: day 12 is left out, day 6 alone is
\* returned.
C22_Witness ==
    /\ tsOut.kind = "ok"
    /\ tsIn.start = 0
    /\ tsIn.end = 12
    /\ tsOut.dates = <<6>>
    /\ Len(tsOut.values) = 1

\* Valid days a and b are the two samples a value at day g is drawn from:
\* neighbours among the valid days, around g, or the two nearest on one side
\* when g lies before the first or after the last valid day.
NearestPair(valid, a, b, g) ==
    LET day(d) == tsIn.scenes[d].date
    IN  /\ a < b
        /\ \A c \in valid : ~(a < c /\ c < b)
        /\ \/ day(a) <= g /\ g <= day(b)
           \/ g < day(a) /\ \A c \in valid : a <= c
           \/ g > day(b) /\ \A c \in valid : c <= b

\* The line through the samples of days a and b, at day g.
OnLine(samples, a, b, g) ==
    RAdd(samples[a].data,
         RMul(RDiv(RSub(samples[b].data, samples[a].data),
                   Rat(tsIn.scenes[b].date - tsIn.scenes[a].date)),
              Rat(g - tsIn.scenes[a].date)))

\* C23: with two or more valid samples every grid point has a defined value
\* on the line through the two nearest valid samples, masked days playing no
\* part: interpolated between them, extrapolated before the first and after
\* the last valid sample.
C23_ValidSamplesExtrapolated ==
    tsOut # Pending /\ Cardinality(ClearDays(tsIn.scenes)) >= 2 =>
        \E valid \in {ClearDays(tsIn.scenes)},
           samples \in {MaMedian(Ndvi(MaskClouds(Stack(tsIn.scenes))))} :
            /\ tsOut.kind = "ok"
            /\ \A i \in 1..Len(tsOut.values) :
                  /\ ~IsNaN(tsOut.values[i])
                  /\ \E a \in valid, b \in valid :
                        /\ NearestPair(valid, a, b, tsOut.dates[i])
                        /\ tsOut.values[i] = OnLine(samples, a, b, tsOut.dates[i])

\* Day 4 cloudy, samples 1/2 on day 9 and -1/2 on day 14: day 6 is extrapolated
\* backwards to 11/10, day 180 forwards.
C23_Witness ==
    /\ tsIn.scenes = CloudyThenClear
    /\ tsIn.end = DefaultEnd
    /\ tsOut.kind = "ok"
    /\ tsOut.dates[1] = 6 /\ tsOut.values[1] = Norm(11, 10)
    /\ tsOut.dates[2] = 12 /\ tsOut.values[2] = Norm(-1, 10)
    /\ tsOut.dates[30] = 180 /\ RLt(tsOut.values[30], Rat(-1))

\* C24: when every task reaches a terminal state the collection loop ends;
\* each of its iterations takes one task not yielded before, needing only
\* that task to be terminal, and the loop is over exactly with the iteration
\* that makes the count len(predict_tasks).
C24_LoopTerminates ==
    /\ <>(loop = "collected")
    /\ [][yielded' # yielded =>
            /\ loop = "collecting"
            /\ \E t \in Tasks \ yielded :
                  /\ yielded' = yielded \cup {t}
                  /\ Completed(t)
            /\ (loop' = "collected") <=> (Cardinality(yielded') = Len(predict_tasks))]_vars
    /\ [](loop # "collecting" => Cardinality(yielded) = Len(predict_tasks))

\* The loop over MaxTasks tasks, three of them failing, has ended.
C24_Witness ==
    /\ loop = "collected"
    /\ Len(predict_tasks) = MaxTasks
    /\ Cardinality(yielded) = MaxTasks
    /\ Len(failed_tasks) = 3

Downloaded(q) == InTrace(q, "fetch") /\ (pc[q] \in {"write", "load"} \/ InTrace(q, "load"))

\* C26: the cached file is found by model name alone.  A get_field_class
\* call that finds /tmp/models/<model_name> downloads nothing, whatever its
\* s3_bucket, and loads what the file holds: the artifact of the bucket of the
\* call that fetched it.  The file is never removed, and once whole and no
\* fetch is under way it never changes.
C26_CacheKeyedByName ==
    /\ [][\A r \in Requests :
            /\ pc[r] = "check" /\ pc'[r] # "check" /\ file[req[r].model].state # "absent"
                  => pc'[r] = "load" /\ fetchCount' = fetchCount /\ file' = file
            /\ \A m \in ModelNames : file[m].state # "absent" => file'[m].state # "absent"
            /\ \A m \in ModelNames : shape # "task" /\ Settled(m) => file'[m] = file[m]]_vars
    /\ [](\A r \in Requests :
            shape # "task" /\ clf[r] # NoArtifact /\ ~InTrace(r, "fetch") =>
                \E q \in Requests \ {r} :
                    /\ Downloaded(q)
                    /\ req[q].model = req[r].model
                    /\ clf[r] = Artifact(req[q].bucket, req[q].model))

\* The second call names bucket_b and answers with the model of bucket_a.
C26_Witness ==
    \E q \in Requests, r \in Requests :
        /\ shape = "lambda"
        /\ req[q].bucket = "bucket_a" /\ req[r].bucket = "bucket_b"
        /\ req[q].model = req[r].model
        /\ pc[q] = "done" /\ pc[r] = "done"
        /\ ~InTrace(r, "fetch")
        /\ clf[r] = Artifact("bucket_a", req[r].model)
        /\ fetchCount[req[r].model] = 1

\* C27: a request deserializes the model file only when the file is whole:
\* no request passes its load step while the file it reads is still being
\* written by a fetch.
C27_Original ==
    [][\A r \in Requests :
          pc[r] = "load" /\ pc'[r] # "load" =>
              /\ file[req[r].model].state = "complete"
              /\ \A q \in Requests \ {r} :
                    req[q].model = req[r].model => pc[q] # "write"]_vars

\* The steps named step in the trace of request r.
StepsOf(r, step) == {i \in 1..Len(trace[r]) : trace[r][i] = step}

\* get_ndvi_tseries of invocation r has returned a series and the statement
\* after it has run.
SeriesReturned(r) ==
    /\ InTrace(r, "search")
    /\ tseries_of[loc[r].geom].kind = "ok"
    /\ pc[r] # "fetch"

\* C28 (as amended): classify_ndvi never looks for the local file.  An
\* invocation whose time series was returned fetches the model once, before
\* it loads, also when the file of an earlier invocation is there; one whose
\* get_ndvi_tseries raised fetches nothing.  The fetches number the
\* invocations that got past the time series.
C28_TaskFetchesEveryTime ==
    shape = "task" =>
        /\ \A r \in Requests :
              /\ Cardinality(StepsOf(r, "fetch")) = (IF SeriesReturned(r) THEN 1 ELSE 0)
              /\ \A i \in StepsOf(r, "load"), j \in StepsOf(r, "fetch") : j < i
              /\ InTrace(r, "load") => InTrace(r, "fetch")
        /\ fetchCount["classifier.joblib"] =
              Cardinality({r \in Requests : SeriesReturned(r)})

\* The last invocation fetched although the file was there, and one fetch
\* per invocation was made.
C28_Witness ==
    /\ shape = "task"
    /\ \A r \in Requests : pc[r] = "done" /\ trace[r] = <<"search", "fetch", "load", "predict">>
    /\ fetchCount["classifier.joblib"] = MaxRequests
    /\ file["classifier.joblib"].state = "complete"

\* C28 as stated: every invocation fetches exactly once, k finished
\* invocations make k fetches.
C28_Original ==
    shape = "task" =>
        fetchCount["classifier.joblib"] =
            Cardinality({r \in Requests : pc[r] \in {"done", "failed"}})

\* C29: with exactly one acquisition day of valid aggregate the call returns
\* no vector: it ends in an error.
C29_Original ==
    tsOut # Pending /\ Cardinality(ClearDays(tsIn.scenes)) = 1 => tsOut.kind # "ok"

====
